---- MODULE Spec2Model ----
(***************************************************************************)
(* Model of misc/featurizer.py: the Featurizer that maps every rule        *)
(* (hyperedge) of an ITG parse forest to a sparse feature map.             *)
(*                                                                         *)
(* Floats are fixed-point integers in thousandths (1.0 is F1 = 1000).      *)
(* A defaultdict(float) is a function from key strings to values; a key    *)
(* that is absent reads as 0.0.  Feature keys are the real strings the     *)
(* '%' formatting of the source builds.                                    *)
(***************************************************************************)
EXTENDS Integers, Sequences, FiniteSets, TLC

VARIABLES
    ibm1_probs,               \* self.ibm1_probs
    embeddings_ch,            \* self.embeddings_ch
    embeddings_en,            \* self.embeddings_en
    word_class_features,      \* self.word_class_features
    dense_word_emb_features,  \* self.dense_word_emb_features
    sparse_word_features,     \* self.sparse_word_features
    call,                     \* the last method call and its arguments
    outcome                   \* what that call returned or raised

vars == <<ibm1_probs, embeddings_ch, embeddings_en, word_class_features,
          dense_word_emb_features, sparse_word_features, call, outcome>>

fields == <<ibm1_probs, embeddings_ch, embeddings_en, word_class_features,
            dense_word_emb_features, sparse_word_features>>

(***************************************************************************)
(* Bounds of the model.                                                    *)
(***************************************************************************)
MaxLen == 2      \* longest source sentence, in words
MaxDim == 2      \* largest dimension of an embedding table
MaxForest == 2   \* most rules in a forest Dx
MaxBatch == 2    \* most tuples in a batch

\* 1.0 in thousandths
F1 == 1000

(***************************************************************************)
(* Symbols, spans and rules (lib.libitg).                                  *)
(***************************************************************************)
Terminal(w) == [cls |-> "Terminal", sym |-> w]

Nonterminal(l) == [cls |-> "Nonterminal", sym |-> l]

Span(symbol, start, end) ==
    [cls |-> "Span", sym |-> symbol, start |-> start, end |-> end]

Rule(lhs, rhs) == [lhs |-> lhs, rhs |-> rhs]

\* Symbol.is_terminal(): a Span delegates to the symbol it wraps.
is_terminal(s) ==
    IF s.cls = "Span" THEN s.sym.cls = "Terminal" ELSE s.cls = "Terminal"

\* isinstance(s, Nonterminal): a Span wraps a Nonterminal, it is not one.
isinstance_Nonterminal(s) == s.cls = "Nonterminal"

\* One character of a python string; it never equals a Nonterminal object.
PyChar == [cls |-> "str", sym |-> "char"]

\* `a, b, c = s.obj()`: a Span's obj() is the tuple (symbol, start, end); a
\* bare Nonterminal's obj() is its string, which unpacks into three
\* characters when it has exactly three and raises ValueError otherwise.
Unpack3(s) ==
    IF s.cls = "Span"
    THEN [status |-> "ok", symbol |-> s.sym, start |-> s.start, end |-> s.end]
    ELSE IF Len(s.sym) = 3
    THEN [status |-> "ok", symbol |-> PyChar, start |-> -1, end |-> -1]
    ELSE [status |-> "ValueError", symbol |-> PyChar, start |-> -1, end |-> -1]

\* s.obj()[0]: the wrapped symbol of a Span, the first character of a bare
\* Nonterminal's string.
Obj0(s) == IF s.cls = "Span" THEN s.sym ELSE PyChar

\* libitg.make_fsa(x): a linear automaton, one arc per word.
make_fsa(x) == [words |-> x, nb_states |-> Len(x) + 1]

(***************************************************************************)
(* misc.spans                                                              *)
(***************************************************************************)
Min(a, b) == IF a < b THEN a ELSE b

\* get_phrase(fsa, start, end): the words on the arcs start..end.
get_phrase(src_fsa, start, end) ==
    SubSeq(src_fsa.words, start + 1, Min(end, Len(src_fsa.words)))

\* get_source_word(fsa, start, end): the word of the unit span.
get_source_word(src_fsa, start, end) == src_fsa.words[start + 1]

\* get_target_word(symbol): the word a Terminal carries.
get_target_word(symbol) == symbol.sym

(***************************************************************************)
(* The lexical resources handed to the constructor.                        *)
(***************************************************************************)
EPS == "-EPS-"

SrcWords == {"a", "b"}

TgtWords == {"c", "d"}

AllWords == SrcWords \cup TgtWords \cup {EPS}

\* An IBM1 table, probabilities in thousandths; unseen pairs are 0.
Ibm1Table ==
    [p \in AllWords \X AllWords |->
        IF p = <<"a", "c">> THEN 1000
        ELSE IF p \in {<<"c", "a">>, <<"b", "d">>, <<"a", EPS>>, <<EPS, "c">>}
        THEN 250
        ELSE 0]

\* Component i (0-based) of the vector of word w.
Component(w, i) ==
    (CASE w = "a" -> 100 [] w = "b" -> 300 [] w = "c" -> 700
       [] w = "d" -> -200 [] OTHER -> 0) + 10 * i

\* An embedding table of dimension d over `words`.
Embeddings(words, d) ==
    [dim |-> d,
     vec |-> [w \in words |-> [i \in 1..d |-> Component(w, i - 1)]],
     cluster |-> [w \in words |->
        CASE w = "a" -> 1 [] w = "b" -> 2 [] w = "c" -> 1
          [] w = "d" -> 3 [] OTHER -> 0]]

\* np.log(p + 1e-10), p and the result in thousandths.
NpLogSmoothed(p) ==
    CASE p = 0 -> -23026
      [] p = 250 -> -1386
      [] p = 1000 -> 0

\* np.log(np.sqrt(p * q + 1e-10) + 1e-10), p, q and the result in thousandths.
NpLogSqrtSmoothed(p, q) ==
    CASE p * q = 0 -> -11513
      [] p * q = 62500 -> -1386
      [] p * q = 250000 -> -693
      [] p * q = 1000000 -> 0

(***************************************************************************)
(* defaultdict(float)                                                      *)
(***************************************************************************)
EmptyFMap == [k \in {} |-> 0]

\* fmap[k] read: creates nothing here, the value is 0.0 when k is absent.
Get(fmap, k) == IF k \in DOMAIN fmap THEN fmap[k] ELSE 0

\* fmap[k] = v
Put(fmap, k, v) ==
    [kk \in DOMAIN fmap \cup {k} |-> IF kk = k THEN v ELSE fmap[kk]]

\* fmap[k] += v
Inc(fmap, k, v) == Put(fmap, k, Get(fmap, k) + v)

\* A bare `fmap[k]` expression statement: __missing__ inserts k with 0.0.
Touch(fmap, k) == Put(fmap, k, Get(fmap, k))

\* A featurizer ran to its end with fmap, or raised with fmap as it then was.
Ok(fmap) == [status |-> "ok", fmap |-> fmap]

Raised(e, fmap) == [status |-> e, fmap |-> fmap]

\* for dim, val in enumerate(vec): fmap[prefix % dim] = val   (dims 0..n-1)
RECURSIVE PutVector(_, _, _, _)
PutVector(fmap, prefix, vec, n) ==
    IF n = 0 THEN fmap
    ELSE Put(PutVector(fmap, prefix, vec, n - 1),
             prefix \o ToString(n - 1), vec[n])

\* np.zeros(dim) followed by `repr += emb.get(word)` for every word.
RECURSIVE SumVectors(_, _)
SumVectors(emb, phrase) ==
    IF phrase = <<>> THEN [i \in 1..emb.dim |-> 0]
    ELSE LET rest == SumVectors(emb, SubSeq(phrase, 1, Len(phrase) - 1))
             v == emb.vec[phrase[Len(phrase)]]
         IN [i \in 1..emb.dim |-> rest[i] + v[i]]

\* The pairs (i, j), i < j, of the double loop over range(n).
Pairs(n) == {p \in (1..n) \X (1..n) : p[1] < p[2]}

\* for i .. for j in range(i+1, n): fmap[key(i, j)] += 1.0
\* Addition commutes, so the pairs are folded in any order.
RECURSIVE IncPairs(_, _, _)
IncPairs(fmap, keys, ps) ==
    IF ps = {} THEN fmap
    ELSE LET p == CHOOSE q \in ps : TRUE
         IN IncPairs(Inc(fmap, keys[p], F1), keys, ps \ {p})

(***************************************************************************)
(* Featurizer: the per-category featurizers.                               *)
(***************************************************************************)
\* The Featurizer object, as the methods read it.
Self ==
    [ibm1_probs |-> ibm1_probs,
     embeddings_ch |-> embeddings_ch,
     embeddings_en |-> embeddings_en,
     word_class_features |-> word_class_features,
     dense_word_emb_features |-> dense_word_emb_features,
     sparse_word_features |-> sparse_word_features]

_featurize_upgrade_rule(self, rule, src_fsa, fmap) ==
    LET lhs == Unpack3(rule.lhs)
        rhs == Unpack3(rule.rhs[1])
    IN IF lhs.status # "ok" THEN Raised(lhs.status, fmap)
       ELSE IF rhs.status # "ok" THEN Raised(rhs.status, fmap)
       ELSE IF lhs.symbol = Nonterminal("X")
       THEN IF rhs.symbol = Nonterminal("T")
            THEN Ok(Inc(fmap, "type:upgrade_t", F1))
            ELSE IF rhs.symbol = Nonterminal("D")
            THEN Ok(Inc(fmap, "type:upgrade_d", F1))
            ELSE IF rhs.symbol = Nonterminal("T")
            THEN Ok(Inc(fmap, "type:upgrade_t", F1))
            ELSE Ok(fmap)
       ELSE Ok(fmap)

\* The mutant of Inverted: the first rhs item's start is compared.
InvertedFirstRhs(lhs_start, rhs_start_1, rhs_start_2) == lhs_start = rhs_start_1

\* `if lhs_start == rhs_start_2`
Inverted(lhs_start, rhs_start_1, rhs_start_2) == lhs_start = rhs_start_2

\* The mutant of InsidePhraseOk: the assertion accepts an empty phrase.
InsidePhraseAny(src_inside_phrase) == Len(src_inside_phrase) >= 0

\* `assert len(src_inside_phrase) > 0`
InsidePhraseOk(src_inside_phrase) == Len(src_inside_phrase) > 0

\* The "X" branch of _featurize_binary_rule, from the orientation on.
BinaryX(self, src_fsa, fmap, lhs, rhs1, rhs2) ==
    LET f1 == IF Inverted(lhs.start, rhs1.start, rhs2.start)
              THEN Inc(fmap, "binary:inverted", F1)
              ELSE Inc(fmap, "binary:monotone", F1)
        src_inside_phrase == get_phrase(src_fsa, lhs.start, lhs.end)
        inside_repr == SumVectors(self.embeddings_ch, src_inside_phrase)
        f2 == PutVector(f1, "inside-phrase-", inside_repr, Len(inside_repr))
        src_outside_phrase ==
            get_phrase(src_fsa, 0, lhs.start)
                \o get_phrase(src_fsa, lhs.end, src_fsa.nb_states)
        outside_repr == SumVectors(self.embeddings_ch, src_outside_phrase)
        f3 == IF Len(src_outside_phrase) > 0
              THEN PutVector(f2, "outside-phrase-", outside_repr,
                             Len(outside_repr))
              ELSE f2
        rhs_phrase ==
            get_phrase(src_fsa, rhs1.start, rhs1.end)
                \o get_phrase(src_fsa, rhs2.start, rhs2.end)
        n == Len(rhs_phrase)
        f4 == IncPairs(f3,
                  [p \in Pairs(n) |->
                      "skip-gram:" \o rhs_phrase[p[1]] \o "/"
                          \o rhs_phrase[p[2]]],
                  Pairs(n))
        rhs_word_classes ==
            [i \in 1..n |-> self.embeddings_ch.cluster[rhs_phrase[i]]]
        f5 == IF self.word_class_features
              THEN IncPairs(f4,
                      [p \in Pairs(n) |->
                          "skip-gram:word-classes:"
                              \o ToString(rhs_word_classes[p[1]]) \o "/"
                              \o ToString(rhs_word_classes[p[2]])],
                      Pairs(n))
              ELSE f4
        source_span_len == lhs.end - lhs.start
    IN IF ~InsidePhraseOk(src_inside_phrase) THEN Raised("AssertionError", f1)
       ELSE Ok(Inc(f5, "source-span-len-" \o ToString(source_span_len), F1))

_featurize_binary_rule(self, rule, src_fsa, fmap) ==
    LET f0 == Inc(fmap, "type:binary", F1)
        lhs == Unpack3(rule.lhs)
        rhs1 == Unpack3(rule.rhs[1])
        rhs2 == Unpack3(rule.rhs[2])
    IN IF lhs.status # "ok" THEN Raised(lhs.status, f0)
       ELSE IF rhs1.status # "ok" THEN Raised(rhs1.status, f0)
       ELSE IF rhs2.status # "ok" THEN Raised(rhs2.status, f0)
       ELSE IF lhs.symbol = Nonterminal("D")
       THEN Ok(Inc(f0, "binary:recursive_deletion", F1))
       ELSE IF lhs.symbol = Nonterminal("X")
       THEN BinaryX(self, src_fsa, f0, lhs, rhs1, rhs2)
       ELSE Ok(f0)

_featurize_start_rule(self, rule, src_fsa, fmap) == Ok(Inc(fmap, "top", F1))

\* for i in range(n_loop): fmap[prefix % i] = vec[i], with IndexError at the
\* first i that vec does not have.
DenseLoop(fmap, prefix, vec, n_loop) ==
    IF n_loop > Len(vec)
    THEN Raised("IndexError", PutVector(fmap, prefix, vec, Len(vec)))
    ELSE Ok(PutVector(fmap, prefix, vec, n_loop))

\* The mutant of ClassGate: the word-class features have their own switch.
ClassGateIndependent(self) == self.word_class_features

\* `if self.word_class_features and self.sparse_word_features`
ClassGate(self) == self.word_class_features /\ self.sparse_word_features

\* The Deletion branch of _featurize_terminal_rule.
TerminalDeletion(self, src_fsa, fmap, lhs) ==
    LET f1 == Inc(fmap, "type:deletion", F1)
        src_word == get_source_word(src_fsa, lhs.start, lhs.end)
        f2 == Inc(f1, "ibm1:del:logprob",
                  NpLogSmoothed(self.ibm1_probs[<<src_word, EPS>>]))
        f3 == IF self.sparse_word_features
              THEN Inc(f2, "del:" \o src_word, F1) ELSE f2
        src_class == self.embeddings_ch.cluster[src_word]
        f4 == IF ClassGate(self)
              THEN Inc(f3, "del:class:" \o ToString(src_class), F1) ELSE f3
        ch_emb == self.embeddings_ch.vec[src_word]
    IN IF self.dense_word_emb_features
       THEN DenseLoop(f4, "del:emb:dim-", ch_emb, self.embeddings_ch.dim)
       ELSE Ok(f4)

\* The Insertion branch of _featurize_terminal_rule.
TerminalInsertion(self, src_fsa, fmap, rhs) ==
    LET f1 == Inc(Inc(fmap, "type:insertion", F1), "target-len", F1)
        tgt_word == get_target_word(rhs.symbol)
        f2 == Inc(f1, "ibm1:ins:logprob",
                  NpLogSmoothed(self.ibm1_probs[<<EPS, tgt_word>>]))
        f3 == IF self.sparse_word_features
              THEN Inc(f2, "ins:" \o tgt_word, F1) ELSE f2
        tgt_class == self.embeddings_en.cluster[tgt_word]
        f4 == IF ClassGate(self)
              THEN Touch(f3, "ins:class:" \o ToString(tgt_class)) ELSE f3
        en_emb == self.embeddings_en.vec[tgt_word]
    IN IF self.dense_word_emb_features
       THEN DenseLoop(f4, "ins:emb:dim-", en_emb, self.embeddings_ch.dim)
       ELSE Ok(f4)

\* The Translation branch of _featurize_terminal_rule.
TerminalTranslation(self, src_fsa, fmap, lhs, rhs) ==
    LET f1 == Inc(Inc(fmap, "type:translation", F1), "target-len", F1)
        src_word == get_source_word(src_fsa, lhs.start, lhs.end)
        tgt_word == get_target_word(rhs.symbol)
        x2y == self.ibm1_probs[<<src_word, tgt_word>>]
        y2x == self.ibm1_probs[<<tgt_word, src_word>>]
        f2 == Inc(Inc(Inc(f1, "ibm1:x2y:logprob", NpLogSmoothed(x2y)),
                      "ibm1:y2x:logprob", NpLogSmoothed(y2x)),
                  "ibm1:geometric:log", NpLogSqrtSmoothed(x2y, y2x))
        f3 == IF self.sparse_word_features
              THEN Inc(f2, "trans:" \o src_word \o "/" \o tgt_word, F1)
              ELSE f2
        src_class == self.embeddings_ch.cluster[src_word]
        tgt_class == self.embeddings_en.cluster[tgt_word]
        f4 == IF ClassGate(self)
              THEN Inc(f3, "trans:class:" \o ToString(src_class) \o "/"
                              \o ToString(tgt_class), F1)
              ELSE f3
        ch_emb == self.embeddings_ch.vec[src_word]
        en_emb == self.embeddings_en.vec[tgt_word]
        n == Min(self.embeddings_ch.dim, Len(en_emb))
        diff == [i \in 1..n |-> ch_emb[i] - en_emb[i]]
    IN IF self.dense_word_emb_features
       THEN DenseLoop(f4, "trans:emb:dim-", diff, self.embeddings_ch.dim)
       ELSE Ok(f4)

_featurize_terminal_rule(self, rule, src_fsa, fmap) ==
    LET f0 == Inc(fmap, "type:terminal", F1)
        lhs == Unpack3(rule.lhs)
        rhs == Unpack3(rule.rhs[1])
    IN IF lhs.status # "ok" THEN Raised(lhs.status, f0)
       ELSE IF rhs.status # "ok" THEN Raised(rhs.status, f0)
       ELSE IF lhs.symbol = Nonterminal("D")
       THEN TerminalDeletion(self, src_fsa, f0, lhs)
       ELSE IF lhs.symbol = Nonterminal("I")
       THEN TerminalInsertion(self, src_fsa, f0, rhs)
       ELSE IF lhs.symbol = Nonterminal("T")
       THEN TerminalTranslation(self, src_fsa, f0, lhs, rhs)
       ELSE Ok(f0)

(***************************************************************************)
(* Featurizer._featurize_edge: the dispatch.                               *)
(***************************************************************************)
\* What _featurize_edge did: the category featurizers it invoked, and the
\* featurizer's outcome.
Invoked(name, r) == [status |-> r.status, fmap |-> r.fmap, invoked |-> <<name>>]

\* The mutant of StartLhs: the start rule is the one with the bare lhs.
StartLhsBare(lhs) == isinstance_Nonterminal(lhs)

\* `if not isinstance(edge.lhs, Nonterminal)`
StartLhs(lhs) == ~isinstance_Nonterminal(lhs)

\* The mutant of _featurize_edge: the label test comes before the test for
\* a terminal rhs.
FeaturizeEdgeLabelFirst(self, edge, src_fsa) ==
    LET fmap == EmptyFMap
    IN IF Len(edge.rhs) = 2
       THEN Invoked("binary", _featurize_binary_rule(self, edge, src_fsa, fmap))
       ELSE IF Obj0(edge.lhs) = Nonterminal("X")
       THEN Invoked("upgrade",
                    _featurize_upgrade_rule(self, edge, src_fsa, fmap))
       ELSE IF is_terminal(edge.rhs[1])
       THEN Invoked("terminal",
                    _featurize_terminal_rule(self, edge, src_fsa, fmap))
       ELSE IF StartLhs(edge.lhs)
       THEN Invoked("start", _featurize_start_rule(self, edge, src_fsa, fmap))
       ELSE [status |-> "ok", fmap |-> fmap, invoked |-> <<>>]

_featurize_edge(self, edge, src_fsa) ==
    LET fmap == EmptyFMap
    IN IF Len(edge.rhs) = 2
       THEN Invoked("binary", _featurize_binary_rule(self, edge, src_fsa, fmap))
       ELSE IF is_terminal(edge.rhs[1])
       THEN Invoked("terminal",
                    _featurize_terminal_rule(self, edge, src_fsa, fmap))
       ELSE IF Obj0(edge.lhs) # Nonterminal("X")
       THEN IF StartLhs(edge.lhs)
            THEN Invoked("start",
                         _featurize_start_rule(self, edge, src_fsa, fmap))
            ELSE [status |-> "ok", fmap |-> fmap, invoked |-> <<>>]
       ELSE Invoked("upgrade",
                    _featurize_upgrade_rule(self, edge, src_fsa, fmap))

(***************************************************************************)
(* misc.features.Features and the two public methods.                      *)
(***************************************************************************)
\* Features(): the container, a mapping from Rule to its FeatureMap.
Features == [r \in {} |-> EmptyFMap]

\* features.add(edge, fmap): the map is stored under the rule; a rule that
\* is added again keeps one entry, holding the later map.
FeaturesAdd(features, edge, fmap) ==
    [r \in DOMAIN features \cup {edge} |->
        IF r = edge THEN fmap ELSE features[r]]

\* A best derivation absent (python's None), and one with its rules.
None == [cls |-> "NoneType"]

CFG(rules) == [cls |-> "CFG", _rules |-> rules]

\* The mutant of BestRule: the first rule of the derivation is taken.
BestRuleFirst(Dxy) == Dxy._rules[1]

\* `Dxy._rules[-1]`
BestRule(Dxy) == Dxy._rules[Len(Dxy._rules)]

\* The state of a public method: how it ended, the container, the add()
\* calls the method has made on it, in order, and, when an edge's
\* featurization raised, the edge and its fmap then.
Running(features, adds) ==
    [status |-> "ok", features |-> features, adds |-> adds, edge |-> None,
     fmap |-> EmptyFMap]

\* features.add(edge, self._featurize_edge(edge, src_fsa))
AddEdge(self, edge, src_fsa, run) ==
    LET r == _featurize_edge(self, edge, src_fsa)
    IN IF r.status = "ok"
       THEN Running(FeaturesAdd(run.features, edge, r.fmap),
                    Append(run.adds, <<edge, r.fmap>>))
       ELSE [status |-> r.status, features |-> run.features,
             adds |-> run.adds, edge |-> edge,
             fmap |-> r.fmap]

\* `for edge in Dx: features.add(...)`, from the state `run` on.
RECURSIVE ForEdges(_, _, _, _)
ForEdges(self, Dx, src_fsa, run) ==
    IF run.status # "ok" \/ Dx = <<>> THEN run
    ELSE ForEdges(self, Tail(Dx), src_fsa,
                  AddEdge(self, Head(Dx), src_fsa, run))

\* The `Dxy._rules[-1]` statement shared by the two methods, for a Dxy that
\* is not None.
AddBest(self, Dxy, src_fsa, run) ==
    IF run.status # "ok" THEN run
    ELSE IF Dxy._rules = <<>>
    THEN [run EXCEPT !.status = "IndexError"]
    ELSE AddEdge(self, BestRule(Dxy), src_fsa, run)

featurize_parse_trees(self, Dx, Dxy, x) ==
    LET src_fsa == make_fsa(x)
        run == ForEdges(self, Dx, src_fsa, Running(Features, <<>>))
    IN IF Dxy # None THEN AddBest(self, Dxy, src_fsa, run) ELSE run

\* One iteration of the loop over the batch.
BatchItem(self, item, run) ==
    LET src_fsa == make_fsa(item[3])
        after == ForEdges(self, item[1], src_fsa, run)
    IN IF after.status # "ok" THEN after
       ELSE IF item[2] = None
       THEN [after EXCEPT !.status = "AttributeError"]
       ELSE AddBest(self, item[2], src_fsa, after)

RECURSIVE BatchLoop(_, _, _)
BatchLoop(self, batch, run) ==
    IF run.status # "ok" \/ batch = <<>> THEN run
    ELSE BatchLoop(self, Tail(batch), BatchItem(self, Head(batch), run))

featurize_parse_trees_batch(self, batch) ==
    BatchLoop(self, batch, Running(Features, <<>>))

(***************************************************************************)
(* The inputs: sentences, rules, forests, derivations, batches.            *)
(***************************************************************************)
SeqsUpTo(S, n) == UNION {[1..k -> S] : k \in 0..n}

Sentences == SeqsUpTo(SrcWords, MaxLen)

Labels == {"X", "D", "I", "T", "S"}

\* Bare start symbols, as earley() adds them to a forest.
BareLabels == {"D(x)", "TOP"}

Spans(n) == {p \in (0..n) \X (0..n) : p[1] <= p[2]}

NT(l, s, e) == Span(Nonterminal(l), s, e)

\* Rules with one terminal on the rhs: a deletion covers one source word
\* and carries the null word, a translation covers one source word, an
\* insertion covers none.
TerminalRules(n) ==
    {Rule(NT("D", s, s + 1), <<Span(Terminal(EPS), s, s + 1)>>) :
        s \in 0..(n - 1)}
    \cup {Rule(NT(l, s, s + 1), <<Span(Terminal(w), s, s + 1)>>) :
            l \in {"T", "X", "S"}, s \in 0..(n - 1), w \in TgtWords}
    \cup {Rule(NT("I", s, s), <<Span(Terminal(w), s, s)>>) :
            s \in 0..n, w \in TgtWords}
    \cup {Rule(Nonterminal(b), <<Span(Terminal(w), 0, n)>>) :
            b \in BareLabels, w \in TgtWords}

\* Rules with one span on the rhs.
UnaryRules(n) ==
    {Rule(NT(l, p[1], p[2]), <<NT(r, p[1], p[2])>>) :
        l \in Labels, r \in {"T", "D", "X"}, p \in Spans(n)}
    \cup {Rule(Nonterminal(b), <<NT(r, 0, n)>>) :
            b \in BareLabels, r \in {"S", "X"}}

\* Rules with two spans on the rhs, which split the lhs span at m, in
\* source order or swapped.
BinaryRules(n) ==
    {Rule(NT(l, p[1], p[2]), <<NT("X", p[1], m), NT("X", m, p[2])>>) :
        l \in {"X", "D", "S"}, p \in Spans(n), m \in 0..n}
    \cup {Rule(NT(l, p[1], p[2]), <<NT("X", m, p[2]), NT("X", p[1], m)>>) :
            l \in {"X", "D", "S"}, p \in Spans(n), m \in 0..n}
    \cup {Rule(Nonterminal(b), <<NT("X", 0, m), NT("X", m, n)>>) :
            b \in BareLabels, m \in 0..n}

WellSplit(r) ==
    r.lhs.cls = "Span" /\ Len(r.rhs) = 2
        => \A i \in 1..2 : /\ r.lhs.start <= r.rhs[i].start
                           /\ r.rhs[i].start <= r.rhs[i].end
                           /\ r.rhs[i].end <= r.lhs.end

Rules(n) ==
    {r \in TerminalRules(n) \cup UnaryRules(n) \cup BinaryRules(n) :
        WellSplit(r)}

\* The goal rule earley() adds: the bare start symbol over the whole span.
GoalRule(n) == Rule(Nonterminal("D(x)"), <<NT("S", 0, n)>>)

\* The rules a forest is drawn from.
ForestRules(n) ==
    {Rule(NT("S", 0, n), <<NT("X", 0, n)>>),
     Rule(NT("X", 0, n), <<NT("T", 0, n)>>),
     Rule(NT("X", 0, n), <<NT("X", 0, 0), NT("X", 0, n)>>),
     Rule(NT("I", 0, 0), <<Span(Terminal("c"), 0, 0)>>)}
    \cup {Rule(NT("T", 0, 1), <<Span(Terminal("d"), 0, 1)>>) : i \in 1..Min(n, 1)}

Forests(n) == SeqsUpTo(ForestRules(n), MaxForest)

\* The best derivations: none, or one whose last rule is the goal rule or
\* another rule.
Derivations(n) ==
    {None, CFG(<<>>), CFG(<<GoalRule(n)>>),
     CFG(<<Rule(NT("X", 0, n), <<NT("D", 0, n)>>), GoalRule(n)>>),
     CFG(<<GoalRule(n), Rule(NT("X", 0, n), <<NT("D", 0, n)>>)>>)}

\* The tuples (Dx, Dxy, source, target) of a batch.
BatchItems ==
    {<<Dx, Dxy, x, y>> :
        Dx \in {<<>>, <<Rule(NT("X", 0, 1), <<NT("T", 0, 1)>>)>>,
                <<Rule(NT("X", 0, 1), <<NT("X", 0, 0), NT("X", 0, 1)>>),
                  Rule(NT("T", 0, 1), <<Span(Terminal("c"), 0, 1)>>)>>},
        Dxy \in {None, CFG(<<GoalRule(1)>>)},
        x \in {<<"a">>, <<"b">>},
        y \in {<<"c">>, <<"d">>}}

Batches == SeqsUpTo(BatchItems, MaxBatch)

(***************************************************************************)
(* The state machine: the constructor, then any sequence of calls.         *)
(***************************************************************************)
\* No call is under way: the featurizer keeps nothing between calls.
Idle == [op |-> "idle"]

\* Featurizer(ibm1_probs, embeddings_ch, embeddings_en, ...) with any flags.
Init ==
    /\ ibm1_probs = Ibm1Table
    /\ embeddings_ch \in {Embeddings(SrcWords, d) : d \in 1..MaxDim}
    /\ embeddings_en \in {Embeddings(TgtWords, d) : d \in 1..MaxDim}
    /\ word_class_features \in BOOLEAN
    /\ dense_word_emb_features \in BOOLEAN
    /\ sparse_word_features \in BOOLEAN
    /\ call = Idle
    /\ outcome = [status |-> "ok"]

\* The constructor with its default flags (all enabled).
InitDefault ==
    /\ Init
    /\ word_class_features
    /\ dense_word_emb_features
    /\ sparse_word_features

CallFeaturizeEdge ==
    \E x \in Sentences : \E edge \in Rules(Len(x)) :
        /\ call = Idle
        /\ call' = [op |-> "_featurize_edge", edge |-> edge, x |-> x]
        /\ outcome' = _featurize_edge(Self, edge, make_fsa(x))
        /\ UNCHANGED fields

CallFeaturizeParseTrees ==
    \E x \in Sentences : \E Dx \in Forests(Len(x)) :
      \E Dxy \in Derivations(Len(x)) :
        /\ call = Idle
        /\ call' = [op |-> "featurize_parse_trees", Dx |-> Dx, Dxy |-> Dxy,
                    x |-> x]
        /\ outcome' = featurize_parse_trees(Self, Dx, Dxy, x)
        /\ UNCHANGED fields

CallFeaturizeParseTreesBatch ==
    \E batch \in Batches :
        /\ call = Idle
        /\ call' = [op |-> "featurize_parse_trees_batch", batch |-> batch]
        /\ outcome' = featurize_parse_trees_batch(Self, batch)
        /\ UNCHANGED fields

\* The caller takes what the call returned or raised; the next call starts
\* from a fresh Features container.
Return ==
    /\ call # Idle
    /\ call' = Idle
    /\ outcome' = [status |-> "ok"]
    /\ UNCHANGED fields

Next == CallFeaturizeEdge \/ Return

Spec == Init /\ [][Next]_vars

NextTrees == CallFeaturizeParseTrees \/ Return

SpecTrees == InitDefault /\ [][NextTrees]_vars

NextBatch == CallFeaturizeParseTreesBatch \/ Return

SpecBatch == InitDefault /\ [][NextBatch]_vars

(***************************************************************************)
(* Vocabulary of the properties.                                           *)
(***************************************************************************)
EdgeCall == call.op = "_featurize_edge"

TreesCall == call.op = "featurize_parse_trees"

BatchCall == call.op = "featurize_parse_trees_batch"

\* The rule of the call has one rhs item, a Span over a nonterminal.
SingleSpanRhs == Len(call.edge.rhs) = 1 /\ ~is_terminal(call.edge.rhs[1])

\* The rule of the call has one rhs item, a terminal.
TerminalRhs == Len(call.edge.rhs) = 1 /\ is_terminal(call.edge.rhs[1])

\* The lhs of the call's rule is a Span labelled l.
LhsSpan(l) == call.edge.lhs.cls = "Span" /\ call.edge.lhs.sym = Nonterminal(l)

LhsBare == call.edge.lhs.cls = "Nonterminal"

\* fmap without the keys in ks.
Without(fmap, ks) == [k \in DOMAIN fmap \ ks |-> fmap[k]]

CategoryMarkers ==
    {"type:binary", "type:terminal", "top", "type:upgrade_t", "type:upgrade_d"}

ClusterIds == 0..3

LexicalKeys ==
    {"del:" \o w : w \in SrcWords} \cup {"ins:" \o w : w \in TgtWords}
    \cup {"trans:" \o v \o "/" \o w : v \in SrcWords, w \in TgtWords}

ClassKeys ==
    {"del:class:" \o ToString(c) : c \in ClusterIds}
    \cup {"ins:class:" \o ToString(c) : c \in ClusterIds}
    \cup {"trans:class:" \o ToString(c) \o "/" \o ToString(d) :
            c \in ClusterIds, d \in ClusterIds}

\* What the call's rule yields with sparse_word_features enabled, all else
\* as the featurizer is configured.
WithSparse ==
    _featurize_edge([Self EXCEPT !.sparse_word_features = TRUE], call.edge,
                    make_fsa(call.x))

(***************************************************************************)
(* C1 as stated: a rule with a single Span rhs and the bare start          *)
(* Nonterminal as lhs gets exactly {"top": 1.0}.                           *)
(***************************************************************************)
C1_BareStartGetsTop ==
    EdgeCall /\ SingleSpanRhs /\ LhsBare
        => outcome.status = "ok" /\ outcome.fmap = [k \in {"top"} |-> F1]

(***************************************************************************)
(* C1, amended: for a rule with a single Span rhs and the bare start       *)
(* Nonterminal as lhs, _featurize_edge invokes no category featurizer and  *)
(* returns an empty FeatureMap.                                            *)
(***************************************************************************)
C1_BareStartGetsNothing ==
    EdgeCall /\ SingleSpanRhs /\ LhsBare
        => /\ outcome.status = "ok"
           /\ outcome.invoked = <<>>
           /\ outcome.fmap = EmptyFMap

C1_Witness ==
    /\ EdgeCall /\ SingleSpanRhs /\ LhsBare
    /\ call.edge = GoalRule(Len(call.x))
    /\ outcome.status = "ok"
    /\ DOMAIN outcome.fmap = {}

(***************************************************************************)
(* C2 as stated: an Insertion rule featurized with sparse-word and         *)
(* word-class features enabled has ins:class:<cluster id of the target     *)
(* word> = 1.0.                                                            *)
(***************************************************************************)
C2_InsClassIsOne ==
    /\ EdgeCall /\ TerminalRhs /\ LhsSpan("I")
    /\ sparse_word_features /\ word_class_features
    /\ outcome.status = "ok"
    => LET tgt_word == call.edge.rhs[1].sym.sym
           key == "ins:class:" \o ToString(embeddings_en.cluster[tgt_word])
       IN key \in DOMAIN outcome.fmap /\ outcome.fmap[key] = F1

(***************************************************************************)
(* C3 as stated: for a Terminal rule, the FeatureMap with                  *)
(* sparse_word_features disabled is the one with it enabled minus the      *)
(* lexical keys del:<word>, ins:<word>, trans:<src>/<tgt>; the :class:     *)
(* keys stay.                                                              *)
(***************************************************************************)
C3_SparseOffDropsLexicalOnly ==
    /\ EdgeCall /\ TerminalRhs
    /\ ~sparse_word_features
    /\ outcome.status = "ok"
    => /\ WithSparse.status = "ok"
       /\ outcome.fmap = Without(WithSparse.fmap, LexicalKeys)

(***************************************************************************)
(* C3, amended: for a Terminal rule, the FeatureMap with                   *)
(* sparse_word_features disabled is the one with it enabled minus the      *)
(* lexical keys and minus the word-class keys del:class:<id>,              *)
(* ins:class:<id>, trans:class:<s>/<t>; the :emb:, type:*, ibm1:* and      *)
(* target-len keys are in both with the same values.                       *)
(***************************************************************************)
C3_SparseOffDropsLexicalAndClass ==
    /\ EdgeCall /\ TerminalRhs
    /\ ~sparse_word_features
    /\ outcome.status = "ok"
    => /\ WithSparse.status = "ok"
       /\ outcome.fmap = Without(WithSparse.fmap, LexicalKeys \cup ClassKeys)
       /\ DOMAIN outcome.fmap \cap (LexicalKeys \cup ClassKeys) = {}

C3_Witness ==
    /\ EdgeCall /\ TerminalRhs /\ LhsSpan("T")
    /\ ~sparse_word_features /\ word_class_features
    /\ dense_word_emb_features
    /\ outcome.status = "ok"
    /\ "trans:emb:dim-0" \in DOMAIN outcome.fmap
    /\ "trans:class:1/1" \in DOMAIN WithSparse.fmap
    /\ "trans:a/c" \in DOMAIN WithSparse.fmap

(***************************************************************************)
(* C4 as stated: a rule with a single Span rhs whose lhs is a Span with a  *)
(* label other than "X" reaches no category featurizer and gets an empty   *)
(* FeatureMap.                                                             *)
(***************************************************************************)
C4_SpanLhsGetsNothing ==
    EdgeCall /\ SingleSpanRhs /\ call.edge.lhs.cls = "Span" /\ ~LhsSpan("X")
        => /\ outcome.status = "ok"
           /\ outcome.invoked = <<>>
           /\ outcome.fmap = EmptyFMap

(***************************************************************************)
(* C4, amended: a rule with a single Span rhs whose lhs is a Span with a   *)
(* label other than "X" is featurized as the Start rule: _featurize_edge   *)
(* invokes _featurize_start_rule alone and returns exactly {"top": 1.0}.   *)
(***************************************************************************)
C4_SpanLhsGetsTop ==
    EdgeCall /\ SingleSpanRhs /\ call.edge.lhs.cls = "Span" /\ ~LhsSpan("X")
        => /\ outcome.status = "ok"
           /\ outcome.invoked = <<"start">>
           /\ outcome.fmap = [k \in {"top"} |-> F1]

C4_Witness ==
    /\ EdgeCall /\ SingleSpanRhs /\ LhsSpan("S")
    /\ call.edge.rhs[1].sym = Nonterminal("X")
    /\ outcome.status = "ok"
    /\ DOMAIN outcome.fmap = {"top"}

(***************************************************************************)
(* Vocabulary of the properties on forests and batches.                    *)
(***************************************************************************)
\* The entry featurize_parse_trees should record for one rule.
EntryOf(edge, x) == <<edge, _featurize_edge(Self, edge, make_fsa(x)).fmap>>

\* Featurizing the rule raises.
EdgeRaises(edge, x) == _featurize_edge(Self, edge, make_fsa(x)).status # "ok"

\* A Binary rule with lhs label "X" whose lhs span covers no source word.
EmptyBinaryX(edge, x) ==
    /\ Len(edge.rhs) = 2
    /\ edge.lhs.cls = "Span" /\ edge.lhs.sym = Nonterminal("X")
    /\ get_phrase(make_fsa(x), edge.lhs.start, edge.lhs.end) = <<>>

\* The container that holds the entries `adds`, a later entry of a rule
\* replacing an earlier one.
RECURSIVE Stored(_)
Stored(adds) ==
    IF adds = <<>> THEN [r \in {} |-> EmptyFMap]
    ELSE LET before == Stored(SubSeq(adds, 1, Len(adds) - 1))
             last == adds[Len(adds)]
         IN [r \in DOMAIN before \cup {last[1]} |->
                IF r = last[1] THEN last[2] ELSE before[r]]

\* The add() calls featurize_parse_trees makes for each tuple of a batch,
\* in batch order.
RECURSIVE ConcatSingles(_)
ConcatSingles(batch) ==
    IF batch = <<>> THEN <<>>
    ELSE featurize_parse_trees(Self, Head(batch)[1], Head(batch)[2],
                               Head(batch)[3]).adds
            \o ConcatSingles(Tail(batch))

SinglesReturn(batch) ==
    \A i \in 1..Len(batch) :
        featurize_parse_trees(Self, batch[i][1], batch[i][2],
                              batch[i][3]).status = "ok"

(***************************************************************************)
(* C5: featurize_parse_trees(Dx, Dxy, x), when it returns, has made on a   *)
(* fresh Features container exactly one add(rule, FeatureMap) call per     *)
(* rule of Dx, in iteration order, followed by one add() call for the last *)
(* rule of Dxy if and only if Dxy is not None: the featurizer drops,       *)
(* merges and deduplicates nothing, and the container holds, under every   *)
(* rule so added, that rule's FeatureMap and nothing else.                 *)
(***************************************************************************)
C5_OneEntryPerRule ==
    TreesCall /\ outcome.status = "ok"
        => LET expected ==
                 [i \in 1..Len(call.Dx) |-> EntryOf(call.Dx[i], call.x)]
                 \o (IF call.Dxy = None THEN <<>>
                     ELSE <<EntryOf(call.Dxy._rules[Len(call.Dxy._rules)],
                                    call.x)>>)
           IN /\ outcome.adds = expected
              /\ DOMAIN outcome.features
                    = {expected[i][1] : i \in 1..Len(expected)}
              /\ \A i \in 1..Len(expected) :
                    outcome.features[expected[i][1]] = expected[i][2]

C5_Witness ==
    /\ TreesCall /\ outcome.status = "ok"
    /\ Len(call.Dx) = 2 /\ call.Dx[1] # call.Dx[2]
    /\ call.Dxy # None /\ Len(call.Dxy._rules) = 2
    /\ call.Dxy._rules[1] # call.Dxy._rules[2]
    /\ Len(outcome.adds) = 3
    /\ outcome.adds[3][1] = call.Dxy._rules[2]
    /\ Cardinality(DOMAIN outcome.features) = 3
    /\ outcome.features[call.Dx[2]] # outcome.features[call.Dx[1]]

(***************************************************************************)
(* C6 as stated: an Insertion rule featurized with dense embedding         *)
(* features has a key ins:emb:dim-<i> for exactly the dimensions i of the  *)
(* target-side table, each holding component i of the target word's        *)
(* vector, whatever the source-side dimension.                             *)
(***************************************************************************)
C6_InsEmbTargetDims ==
    /\ EdgeCall /\ TerminalRhs /\ LhsSpan("I")
    /\ dense_word_emb_features
    => LET tgt_word == call.edge.rhs[1].sym.sym
           en_emb == embeddings_en.vec[tgt_word]
       IN /\ outcome.status = "ok"
          /\ \A i \in 0..MaxDim :
                LET key == "ins:emb:dim-" \o ToString(i)
                IN IF i < embeddings_en.dim
                   THEN key \in DOMAIN outcome.fmap
                            /\ outcome.fmap[key] = en_emb[i + 1]
                   ELSE key \notin DOMAIN outcome.fmap

(***************************************************************************)
(* C7: when the forest holds a Binary rule with lhs label "X" whose lhs    *)
(* span covers no source word (and no rule before it raises), the call     *)
(* ends in an assertion failure at that rule: none of its inside-phrase,   *)
(* outside-phrase, skip-gram or source-span-len features was computed and  *)
(* no entry for it is recorded.                                            *)
(***************************************************************************)
C7_EmptyInsidePhraseAborts ==
    TreesCall =>
        \A i \in 1..Len(call.Dx) :
            /\ EmptyBinaryX(call.Dx[i], call.x)
            /\ \A j \in 1..(i - 1) : ~EdgeRaises(call.Dx[j], call.x)
            => /\ outcome.status = "AssertionError"
               /\ outcome.edge = call.Dx[i]
               /\ DOMAIN outcome.fmap
                    \subseteq {"type:binary", "binary:inverted",
                               "binary:monotone"}
               /\ Len(outcome.adds) = i - 1
               /\ \A k \in 1..Len(outcome.adds) :
                    outcome.adds[k][1] = call.Dx[k]
               /\ call.Dx[i] \notin DOMAIN outcome.features

C7_Witness ==
    /\ TreesCall
    /\ Len(call.Dx) = 2
    /\ ~EmptyBinaryX(call.Dx[1], call.x)
    /\ EmptyBinaryX(call.Dx[2], call.x)
    /\ outcome.status = "AssertionError"
    /\ Len(outcome.adds) = 1
    /\ DOMAIN outcome.features = {call.Dx[1]}

(***************************************************************************)
(* C8: _featurize_edge invokes at most one category featurizer: Binary     *)
(* (type:binary = 1.0) for an rhs of length 2 whatever the lhs, otherwise  *)
(* Terminal (type:terminal = 1.0) for a terminal rhs item whatever the     *)
(* lhs, otherwise Upgrade for an lhs span labelled "X"; and no FeatureMap  *)
(* holds more than one of the category markers.                            *)
(***************************************************************************)
C8_DispatchPriority ==
    EdgeCall =>
        /\ Len(outcome.invoked) <= 1
        /\ Len(call.edge.rhs) = 2
            => /\ outcome.invoked = <<"binary">>
               /\ "type:binary" \in DOMAIN outcome.fmap
               /\ outcome.fmap["type:binary"] = F1
        /\ TerminalRhs
            => /\ outcome.invoked = <<"terminal">>
               /\ "type:terminal" \in DOMAIN outcome.fmap
               /\ outcome.fmap["type:terminal"] = F1
        /\ SingleSpanRhs /\ LhsSpan("X") => outcome.invoked = <<"upgrade">>
        /\ Cardinality(DOMAIN outcome.fmap \cap CategoryMarkers) <= 1

C8_Witness ==
    /\ EdgeCall /\ TerminalRhs /\ LhsSpan("X")
    /\ outcome.status = "ok"
    /\ outcome.invoked = <<"terminal">>
    /\ DOMAIN outcome.fmap = {"type:terminal"}

(***************************************************************************)
(* C9: a Binary rule with lhs label "X" and a non-empty inside phrase has  *)
(* exactly one of binary:inverted and binary:monotone, with value 1.0, and *)
(* it is binary:inverted if and only if the lhs span starts where the      *)
(* second rhs item starts; a Binary rule with another lhs has neither.     *)
(***************************************************************************)
C9_OrientationLaw ==
    EdgeCall /\ Len(call.edge.rhs) = 2 =>
        LET keys == DOMAIN outcome.fmap
                        \cap {"binary:inverted", "binary:monotone"}
        IN IF LhsSpan("X")
           THEN ~EmptyBinaryX(call.edge, call.x)
                => /\ outcome.status = "ok"
                   /\ Cardinality(keys) = 1
                   /\ \A k \in keys : outcome.fmap[k] = F1
                   /\ "binary:inverted" \in keys
                        <=> call.edge.lhs.start = call.edge.rhs[2].start
           ELSE keys = {}

C9_Witness ==
    /\ EdgeCall /\ Len(call.edge.rhs) = 2 /\ LhsSpan("X")
    /\ outcome.status = "ok"
    /\ call.edge.lhs.start = call.edge.rhs[2].start
    /\ call.edge.lhs.start # call.edge.rhs[1].start
    /\ "binary:inverted" \in DOMAIN outcome.fmap
    /\ "binary:monotone" \notin DOMAIN outcome.fmap

(***************************************************************************)
(* C10 as stated: featurize_parse_trees_batch records the concatenation,   *)
(* in batch order, of what featurize_parse_trees(forest, bestDerivation,   *)
(* source) records for each tuple, also for a tuple whose best derivation  *)
(* is absent.                                                              *)
(***************************************************************************)
C10_BatchIsConcatenation ==
    BatchCall /\ SinglesReturn(call.batch)
        => /\ outcome.status = "ok"
           /\ outcome.adds = ConcatSingles(call.batch)
           /\ outcome.features = Stored(ConcatSingles(call.batch))

====
